---- MODULE Spec2Model ----
(***************************************************************************)
(* MuSA: per-cell data assimilation engine (modules/cell_assim.py) and the *)
(* forcing perturbation subsystem (modules/met_tools.py).                  *)
(*                                                                         *)
(* Four specifications share this module:                                  *)
(*   Spec          - one run of cell_assimilation, one action per          *)
(*                   statement group, the calls it makes recorded in log;  *)
(*   SpecNoise     - calls of the perturbation functions on bounded        *)
(*                   inputs, threaded through numpy's global random state; *)
(*   SpecPosterior - create_noise_from_posterior on every windowed         *)
(*                   posterior series up to MaxSteps records;              *)
(*   SpecRejuvenation - create_noise, add_process_noise and the            *)
(*                   rejuvenation draw (get_shape_from_noise, redraw) on   *)
(*                   ensembles of up to MaxMembers members.                *)
(***************************************************************************)
EXTENDS Integers, Sequences, FiniteSets, TLC

VARIABLES
    cfg,      \* config module: run-mode flags, algorithm, perturbation lists
    env,      \* what the collaborators answer for this cell
    pc,       \* position inside cell_assimilation
    step,     \* loop variable of the window loop
    log,      \* calls made so far, in order: <<[op, step], ...>>
    rng,      \* numpy global random state: [stream, pos]
    args,     \* arguments of the perturbation call under test
    hist,     \* results returned by the perturbation calls so far
    ens,      \* the Ensemble object of the cell run
    disk      \* objects handed to ifn.io_write so far: <<[file, content], ...>>

vars == <<cfg, env, pc, step, log, rng, args, hist, ens, disk>>

cellVars == <<cfg, env, pc, step, log, ens, disk>>
noiseVars == <<rng, args, hist>>

----------------------------------------------------------------------------
(* Bounds *)

MaxWindows == 2       \* assimilation windows of one cell run
MaxVars == 2          \* length of cfg.vars_to_perturbate
MaxCalls == 2         \* calls of the perturbation functions in one behaviour
MaxSteps == 4         \* records of a posterior noise series
MaxMembers == 3       \* ensemble members

----------------------------------------------------------------------------
(* Configuration values *)

Algorithms == {"PF", "PBS", "ES", "IES-MCMC", "IES-MCMC_AI", "deterministic_OL"}

\* cfg.da_algorithm in ["PF", "PBS"]
ResamplingAlgorithms == {"PF", "PBS"}

\* cfg.da_algorithm in ["PBS", "ProPBS", "AdaPBS", "ES", "IES", "PIES", "IES-MCMC"]
RejuvenatingAlgorithms == {"PBS", "ProPBS", "AdaPBS", "ES", "IES", "PIES", "IES-MCMC"}

\* cfg.da_algorithm in ['IES-MCMC', 'IES-MCMC_AI']
McmcAlgorithms == {"IES-MCMC", "IES-MCMC_AI"}

\* len(vars_to_perturbate) != len(perturbation_strategy)
LengthMismatch(c) == Len(c.vars_to_perturbate) # Len(c.perturbation_strategy)

----------------------------------------------------------------------------
(* cell_assimilation *)

Call(op, s) == [op |-> op, step |-> s]

Logged(op) == \E i \in 1..Len(log) : log[i].op = op

CountCalls(op, s) == Cardinality({i \in 1..Len(log) : log[i] = Call(op, s)})

\* a restart check that tests for the file's absence
AlreadyCompleteDropped == cfg.restart_run /\ ~env.outputExists

\* cfg.restart_run and os.path.exists(filename)
AlreadyComplete == cfg.restart_run /\ env.outputExists

\* a dispatch that forgets the deterministic_OL algorithm
OpenLoopShortcutObsOnly == env.obsAllNaN /\ ~cfg.load_prev_run

\* (np.isnan(observations).all() or da_algorithm == "deterministic_OL")
\*     and not cfg.load_prev_run
OpenLoopShortcut ==
    (env.obsAllNaN \/ cfg.da_algorithm = "deterministic_OL") /\ ~cfg.load_prev_run

\* a resampling test that leaves the particle filter out
ResamplesPBSOnly == cfg.da_algorithm \in {"PBS"}

\* cfg.da_algorithm in ["PF", "PBS"]
Resamples == cfg.da_algorithm \in ResamplingAlgorithms

Rejuvenates == cfg.da_algorithm \in RejuvenatingAlgorithms

\* ifn.io_write(name, object): the object is serialised as it is at the
\* call
io_write(d, file, object) == Append(d, [file |-> file, content |-> object])

\* ifn.downcast_output(cell_data): the result bundle of the cell
cell_data == [bundle |-> "cell_data"]

\* no Ensemble is bound before line 92
NoEnsemble ==
    [members |-> 0, forcing |-> <<>>, origin_state |-> <<>>,
     state_membres |-> <<>>, real_time_restart |-> FALSE]

\* the state of one member after the window s; -1 before the first window
MemberState(s) == [kind |-> "state", window |-> s]

\* the 0 that stands for a member's state in a restart snapshot
Placeholder == [kind |-> "placeholder", window |-> -1]

\* SnowEnsemble(lat_idx, lon_idx): cfg.ensemble_members members in their
\* initial state, nothing simulated yet
SnowEnsemble(c) ==
    [members |-> c.ensemble_members, forcing |-> <<>>, origin_state |-> <<>>,
     state_membres |-> [i \in 1..c.ensemble_members |-> MemberState(-1)],
     real_time_restart |-> FALSE]

\* Ensemble.create on the Ensemble e: the window's forcing and simulated
\* output are kept, every member's state is the one after the window
SnowEnsemble_created(e, s) ==
    [e EXCEPT !.forcing = Append(@, s),
              !.origin_state = Append(@, s),
              !.state_membres = [i \in 1..e.members |-> MemberState(s)]]

\* a constant placeholder whose length is not the member count
ReducedEnsembleOnePlaceholder(e) ==
    [e EXCEPT !.forcing = <<>>,
              !.origin_state = <<>>,
              !.state_membres = <<Placeholder>>]

\* lines 204-206: forcing = [], origin_state = pd.DataFrame(),
\* state_membres = [0 for i in range(Ensemble.members)]
ReducedEnsemble(e) ==
    [e EXCEPT !.forcing = <<>>,
              !.origin_state = <<>>,
              !.state_membres = [i \in 1..e.members |-> Placeholder]]

\* ifn.io_read(name_restart): the Ensemble an earlier run of the cell wrote
\* at line 207
io_read_restart(c) == ReducedEnsemble(SnowEnsemble(c))

\* lines 43-53: the restart check
CheckRestart ==
    /\ pc = "start"
    /\ pc' = IF AlreadyComplete THEN "done" ELSE "get_obs"
    /\ UNCHANGED <<cfg, env, step, log, noiseVars, ens, disk>>

\* lines 55-59: observation provider, masked cells return
GetObs ==
    /\ pc = "get_obs"
    /\ log' = log \o <<Call("get_dates_obs", -1), Call("obs_array", -1)>>
    /\ pc' = IF env.masked THEN "done" ELSE "forcing"
    /\ UNCHANGED <<cfg, env, step, noiseVars, ens, disk>>

\* lines 61-67: forcing table, NA check, window planning
ForcingTable ==
    /\ pc = "forcing"
    /\ IF env.forcingNA
       THEN /\ log' = log \o <<Call("forcing_table", -1)>>
            /\ pc' = "done"
       ELSE /\ log' = log \o <<Call("forcing_table", -1),
                               Call("simulation_steps", -1)>>
            /\ pc' = "dispatch"
    /\ UNCHANGED <<cfg, env, step, noiseVars, ens, disk>>

\* ifn.run_model_openloop: forward simulation of the unperturbed forcing,
\* written to the cell's output file; perturb_parameters is not called
run_model_openloop ==
    <<Call("model_run", -1), Call("io_write_output", -1)>>

\* lines 69-73: open-loop short circuit
Dispatch ==
    /\ pc = "dispatch"
    /\ IF OpenLoopShortcut
       THEN /\ log' = log \o <<Call("run_model_openloop", -1)>>
                          \o run_model_openloop
            /\ disk' = io_write(disk, "output", cell_data)
            /\ pc' = "done"
       ELSE /\ log' = log
            /\ disk' = disk
            /\ pc' = "init_results"
    /\ UNCHANGED <<cfg, env, step, noiseVars, ens>>

\* lines 75-88: result containers
InitResults ==
    /\ pc = "init_results"
    /\ log' = log \o <<Call("init_result", -1)>>
    /\ pc' = "init_ensemble"
    /\ UNCHANGED <<cfg, env, step, noiseVars, ens, disk>>

\* lines 90-99: restart snapshot read, or a fresh SnowEnsemble
InitEnsemble ==
    /\ pc = "init_ensemble"
    /\ log' = log \o
         (IF cfg.real_time_restart /\ ~cfg.load_prev_run
          THEN IF env.restartExists
               THEN <<Call("io_read_restart", -1)>>
               ELSE <<Call("io_read_restart", -1), Call("SnowEnsemble", -1)>>
          ELSE <<Call("SnowEnsemble", -1)>>)
    /\ ens' = IF cfg.real_time_restart /\ ~cfg.load_prev_run /\ env.restartExists
              THEN [io_read_restart(cfg) EXCEPT !.real_time_restart = TRUE]
              ELSE SnowEnsemble(cfg)
    /\ step' = 0
    /\ pc' = "create"
    /\ UNCHANGED <<cfg, env, noiseVars, disk>>

\* SnowEnsemble.create: perturb the forcing of every member with
\* perturb_parameters, then advance the members over the window.
\* perturb_parameters raises on mismatched list lengths (met_tools 297-299).
SnowEnsemble_create(c, s) ==
    IF LengthMismatch(c)
    THEN [err |-> TRUE, calls |-> <<Call("perturb_parameters", s)>>]
    ELSE [err |-> FALSE,
          calls |-> <<Call("perturb_parameters", s), Call("model_run", s)>>]

\* line 116; an exception raised inside create ends the run
EnsembleCreate ==
    /\ pc = "create"
    /\ LET ret == SnowEnsemble_create(cfg, step)
       IN  /\ log' = log \o <<Call("create", step)>> \o ret.calls
           /\ ens' = IF ret.err THEN ens ELSE SnowEnsemble_created(ens, step)
           /\ pc' = IF ret.err THEN "raised" ELSE "store_prior"
    /\ UNCHANGED <<cfg, env, step, noiseVars, disk>>

\* lines 118-130: store the prior; a reconstruction run writes it and returns
StorePrior ==
    /\ pc = "store_prior"
    /\ IF cfg.load_prev_run
       THEN /\ log' = log \o <<Call("store_prior", step),
                               Call("io_write_output", -1)>>
            /\ disk' = io_write(disk, "output", cell_data)
            /\ pc' = "done"
       ELSE /\ log' = log \o <<Call("store_prior", step)>>
            /\ disk' = disk
            /\ pc' = "filter"
    /\ UNCHANGED <<cfg, env, step, noiseVars, ens>>

\* line 132
ImplementAssimilation ==
    /\ pc = "filter"
    /\ log' = log \o <<Call("implement_assimilation", step)>>
    /\ pc' = "store_post"
    /\ UNCHANGED <<cfg, env, step, noiseVars, ens, disk>>

\* lines 134-146: DA results, posterior, MCMC series, posterior shape
StorePosterior ==
    /\ pc = "store_post"
    /\ log' = log \o <<Call("storeDA", step), Call("store_posterior", step)>>
                  \o (IF cfg.da_algorithm \in McmcAlgorithms
                      THEN <<Call("store_mcmc", step)>> ELSE <<>>)
                  \o (IF cfg.redraw_prior
                      THEN <<Call("posterior_shape", step)>> ELSE <<>>)
    /\ pc' = "resample"
    /\ UNCHANGED <<cfg, env, step, noiseVars, ens, disk>>

\* lines 148-150
Resample ==
    /\ pc = "resample"
    /\ log' = IF Resamples THEN log \o <<Call("resample", step)>> ELSE log
    /\ pc' = "rejuvenation"
    /\ UNCHANGED <<cfg, env, step, noiseVars, ens, disk>>

\* lines 151-154 and the loop header of line 102
SeasonRejuvenation ==
    /\ pc = "rejuvenation"
    /\ log' = IF Rejuvenates
              THEN log \o <<Call("season_rejuvenation", step)>> ELSE log
    /\ IF step + 1 < env.nWindows
       THEN /\ step' = step + 1
            /\ pc' = "create"
       ELSE /\ step' = step
            /\ pc' = "store_ol"
    /\ UNCHANGED <<cfg, env, noiseVars, ens, disk>>

\* lines 156-197: open-loop series, downcast, result bundle
WriteResults ==
    /\ pc = "store_ol"
    /\ log' = log \o <<Call("storeOL", step), Call("io_write_output", -1)>>
    /\ disk' = io_write(disk, "output", cell_data)
    /\ pc' = "save_ensemble"
    /\ UNCHANGED <<cfg, env, step, noiseVars, ens>>

\* lines 199-201
SaveEnsemble ==
    /\ pc = "save_ensemble"
    /\ log' = IF cfg.save_ensemble
              THEN log \o <<Call("io_write_ensemble", -1)>> ELSE log
    /\ disk' = IF cfg.save_ensemble
               THEN io_write(disk, "ensemble", ens) ELSE disk
    /\ pc' = "save_restart"
    /\ UNCHANGED <<cfg, env, step, noiseVars, ens>>

\* lines 203-207: the Ensemble is reduced in place, then written
SaveRestart ==
    /\ pc = "save_restart"
    /\ log' = IF cfg.real_time_restart
              THEN log \o <<Call("reduce_ensemble", -1),
                            Call("io_write_restart", -1)>>
              ELSE log
    /\ ens' = IF cfg.real_time_restart THEN ReducedEnsemble(ens) ELSE ens
    /\ disk' = IF cfg.real_time_restart
               THEN io_write(disk, "restart", ReducedEnsemble(ens)) ELSE disk
    /\ pc' = "done"
    /\ UNCHANGED <<cfg, env, step, noiseVars>>


----------------------------------------------------------------------------
(* Perturbation subsystem: values                                          *)
(*                                                                         *)
(* A coefficient is kept exactly, as the expression the code evaluates:    *)
(*   T( mean + sqrt(ss / k) * Z(draw) + walk  [+ nudge * 100 spacings] )   *)
(* where T is the identity ("lin"), exp ("exp") or the scaled expit        *)
(* ("expit"), Z(draw) is the standard normal variate at position draw.pos  *)
(* of the random stream draw.stream, and walk is dyn times the sum of the  *)
(* n variates of stream walk.stream from position walk.from on.            *)

SupportedStrategies == {"normal", "lognormal", "logitnormal_mult", "logitnormal_adi"}

AllStrategies == SupportedStrategies \cup {"uniform"}

LogitStrategies == {"logitnormal_mult", "logitnormal_adi"}

VarNames == <<"Ta", "Prec", "SW", "LW">>

\* constants module: nominal errors, process noise and physical bounds
mean_errors == [Ta |-> 0, Prec |-> 1, SW |-> 0, LW |-> 0]
sd_errors == [Ta |-> 1, Prec |-> 2, SW |-> 1, LW |-> 1]
dyn_noise == [Ta |-> 1, Prec |-> 1, SW |-> 2, LW |-> 1]
lower_bounds == [Ta |-> -3, Prec |-> 0, SW |-> 0, LW |-> 0]
upper_bounds == [Ta |-> 3, Prec |-> 4, SW |-> 2, LW |-> 2]

NoDraw == [stream |-> -1, pos |-> -1]
NoWalk == [dyn |-> 0, stream |-> -1, from |-> 0, n |-> 0]

\* a number given as it is, no random part: x is its coordinate in the
\* normal space of the family dom (x itself, log or glogit of the number)
Given(dom, x) ==
    [dom |-> dom, mean |-> x, ss |-> 0, k |-> 1, draw |-> NoDraw,
     walk |-> NoWalk, nudge |-> 0]

\* the family a strategy's coefficients live in
Dom(strategy) ==
    CASE strategy = "lognormal" -> "exp"
      [] strategy \in LogitStrategies -> "expit"
      [] OTHER -> "lin"

\* np.random.seed(cfg.seed), only when a seed is configured
Reseed(c, r) ==
    IF c.seed # <<>> THEN [stream |-> c.seed[1], pos |-> 0] ELSE r

Advance(r, n) == [r EXCEPT !.pos = r.pos + n]

\* np.random.normal(mean, std, 1) with std*std = ss / k, at random state r
Normal(mean, ss, k, r) ==
    [dom |-> "lin", mean |-> mean, ss |-> ss, k |-> k,
     draw |-> [stream |-> r.stream, pos |-> r.pos], walk |-> NoWalk,
     nudge |-> 0]

\* np.repeat(x, n)
Repeat(x, n) == [i \in 1..n |-> x]

\* the value is a plain number equal to b: no random part left in it
NumericallyEquals(v, b) ==
    /\ v.dom = "lin"
    /\ v.ss = 0
    /\ v.walk.n = 0
    /\ v.nudge = 0
    /\ v.mean = b

\* np.exp and np.log on one coefficient
Exp(v) == [v EXCEPT !.dom = IF v.dom = "lin" THEN "exp" ELSE "undef"]
Log(v) == [v EXCEPT !.dom = IF v.dom = "exp" THEN "lin" ELSE "undef"]

\* glogit on one coefficient strictly inside its bounds
glogit(x, bPmin, bPmax) ==
    [x EXCEPT !.dom = IF x.dom = "expit" THEN "lin" ELSE "undef"]

\* gexpit on one coefficient: the boundary guard compares the normal-space
\* value with the physical bounds and moves it by 100 spacings, then
\* expit and scaling to (bPmin, bPmax)
gexpit(xt, bPmin, bPmax) ==
    LET up == IF NumericallyEquals(xt, bPmin) THEN [xt EXCEPT !.nudge = 1] ELSE xt
        dn == IF NumericallyEquals(up, bPmax) THEN [up EXCEPT !.nudge = -1] ELSE up
    IN  [dn EXCEPT !.dom = IF dn.dom = "lin" THEN "expit" ELSE "undef"]

\* x + np.cumsum(add_vals)[i-1], add_vals drawn at random state r
AddWalk(x, dyn, r, i) ==
    [x EXCEPT !.walk = [dyn |-> dyn, stream |-> r.stream, from |-> r.pos, n |-> i]]

Ok(out, r) == [err |-> FALSE, out |-> out, rng |-> r]
Raise(r) == [err |-> TRUE, out |-> <<>>, rng |-> r]

----------------------------------------------------------------------------
(* create_noise *)

create_noise(c, perturbation_strategy, n_steps, mean, std_dev, var, r) ==
    LET r1 == Reseed(c, r)
        d == Normal(mean, std_dev * std_dev, 1, r1)
        r2 == Advance(r1, 1)
    IN  CASE perturbation_strategy = "normal" -> Ok(Repeat(d, n_steps), r2)
          [] perturbation_strategy = "lognormal" ->
                Ok(Repeat(Exp(d), n_steps), r2)
          [] perturbation_strategy \in LogitStrategies ->
                Ok(Repeat(gexpit(d, lower_bounds[var], upper_bounds[var]),
                          n_steps), r2)
          [] OTHER -> Raise(r1)

----------------------------------------------------------------------------
(* create_noise_from_posterior *)

RECURSIVE SortedSeq(_)
\* the elements of a finite set of integers in ascending order
SortedSeq(S) ==
    IF S = {} THEN <<>>
    ELSE LET m == CHOOSE x \in S : \A y \in S : x <= y
         IN  <<m>> \o SortedSeq(S \ {m})

RECURSIVE SumOver(_, _)
\* the sum of f over the finite index set P
SumOver(f, P) ==
    IF P = {} THEN 0
    ELSE LET p == CHOOSE x \in P : TRUE
         IN  f[p] + SumOver(f, P \ {p})

\* np.unique(post_mean)
Unique(post_mean) == SortedSeq({post_mean[i] : i \in 1..Len(post_mean)})

\* counts = [np.sum(post_mean == value) for value in post_mean_vals]
CountsOf(post_mean, post_mean_vals) ==
    [j \in 1..Len(post_mean_vals) |->
        Cardinality({i \in 1..Len(post_mean) : post_mean[i] = post_mean_vals[j]})]

\* idsDAWS = np.repeat(range(len(counts)), counts): position p of the series
\* carries the index of the block of counts it falls in
IdsDAWS(counts) ==
    [p \in 1..SumOver(counts, DOMAIN counts) |->
        CHOOSE j \in DOMAIN counts :
            /\ SumOver(counts, 1..(j - 1)) < p
            /\ p <= SumOver(counts, 1..j)]

\* post_post_std_dev[i] = sqrt(sum(sd[ids == i] ** 2) / k), kept as <<ss, k>>
PostPostStdDev(post_std_dev, idsDAWS, nIds) ==
    [i \in 1..nIds |->
        LET P == {p \in DOMAIN idsDAWS : idsDAWS[p] = i}
        IN  [ss |-> SumOver([p \in DOMAIN post_std_dev |->
                                post_std_dev[p] * post_std_dev[p]], P),
             k |-> Cardinality(P)]]

\* n_steps = counts[0]
SegmentSteps(counts, n) == counts[1]

RECURSIVE DAWLoop(_, _, _, _, _, _, _, _)
\* lines 206-235: one draw per DAW, appended to complet_noise
DAWLoop(c, strategy, var, post_mean_vals, std, counts, n, acc) ==
    IF n > Len(post_mean_vals) THEN acc
    ELSE
      LET n_steps == SegmentSteps(counts, n)
          r1 == Reseed(c, acc.rng)
          d == Normal(post_mean_vals[n], std[n].ss, std[n].k, r1)
          r2 == Advance(r1, 1)
          seg == [mean |-> post_mean_vals[n], ss |-> std[n].ss,
                  k |-> std[n].k, n_steps |-> n_steps]
          noise == CASE strategy = "normal" -> d
                     [] strategy = "lognormal" -> Exp(d)
                     [] strategy \in LogitStrategies ->
                           gexpit(d, lower_bounds[var], upper_bounds[var])
      IN  IF strategy \notin SupportedStrategies
          THEN [err |-> TRUE, out |-> <<>>, segs |-> acc.segs, rng |-> r1]
          ELSE DAWLoop(c, strategy, var, post_mean_vals, std, counts, n + 1,
                       [err |-> FALSE,
                        out |-> acc.out \o Repeat(noise, n_steps),
                        segs |-> Append(acc.segs, seg),
                        rng |-> r2])

\* len(posteriors) == len(post_mean_vals): the dynamic noise case
DynamicNoiseCase(post_mean) == Len(post_mean) = Len(Unique(post_mean))

create_noise_from_posterior(c, posteriors, perturbation_strategy, var_tmp, r) ==
    LET r0 == Reseed(c, r)
        post_mean == posteriors.mean
        post_std_dev == posteriors.sd
        post_mean_vals == Unique(post_mean)
    IN  IF DynamicNoiseCase(post_mean)
        \* counts = len(posteriors) is a plain int: len(counts) on line 192
        \* raises TypeError
        THEN [err |-> TRUE, out |-> <<>>, segs |-> <<>>, rng |-> r0]
        ELSE
          LET counts == CountsOf(post_mean, post_mean_vals)
              idsDAWS == IdsDAWS(counts)
              std == PostPostStdDev(post_std_dev, idsDAWS, Len(counts))
          IN  DAWLoop(c, perturbation_strategy, var_tmp, post_mean_vals, std,
                      counts, 1,
                      [err |-> FALSE, out |-> <<>>, segs |-> <<>>, rng |-> r0])

----------------------------------------------------------------------------
(* add_process_noise *)

add_process_noise(c, noise_coef, var, strategy, r) ==
    IF c.implementation = "Spatial_propagation" THEN Ok(noise_coef, r)
    ELSE IF c.add_dynamic_noise
    THEN
      LET n == Len(noise_coef)
          dyn == dyn_noise[var]
          lo == lower_bounds[var]
          hi == upper_bounds[var]
          r2 == Advance(r, n)
      IN  CASE strategy = "normal" ->
                 Ok([i \in 1..n |-> AddWalk(noise_coef[i], dyn, r, i)], r2)
            [] strategy = "lognormal" ->
                 Ok([i \in 1..n |->
                       Exp(AddWalk(Log(noise_coef[i]), dyn, r, i))], r2)
            [] strategy \in LogitStrategies ->
                 Ok([i \in 1..n |->
                       gexpit(AddWalk(glogit(noise_coef[i], lo, hi), dyn, r, i),
                              lo, hi)], r2)
            [] OTHER -> Raise(r2)
    ELSE Ok(noise_coef, r)

----------------------------------------------------------------------------
(* perturb_parameters *)

\* lines 309-325: where the coefficient of variable idv comes from
NoiseSource(c, a, idv, r) ==
    LET var_tmp == c.vars_to_perturbate[idv]
        strategy_tmp == c.perturbation_strategy[idv]
    IN  IF a.readGSC
        THEN Ok(Repeat(Given(Dom(strategy_tmp), a.gsc[idv]), a.n_steps), r)
        ELSE IF a.update
        THEN Ok(Repeat(Given(Dom(strategy_tmp), a.noise[idv]), a.n_steps), r)
        ELSE IF c.load_prev_run
        THEN LET p == create_noise_from_posterior(c, a.posteriors,
                                                  strategy_tmp, var_tmp, r)
             IN  [err |-> p.err, out |-> p.out, rng |-> p.rng]
        ELSE create_noise(c, strategy_tmp, a.n_steps, mean_errors[var_tmp],
                          sd_errors[var_tmp], var_tmp, r)

\* forcing_copy[var].values * noise_coef (or +): numpy broadcasts a
\* one-element array and rejects any other length but the column's
ShapesAgree(noise_coef, n_steps) == Len(noise_coef) \in {n_steps, 1}

RECURSIVE PerturbLoop(_, _, _, _)
\* lines 303-335, from variable idv on; acc = [err, forcing, noise, rng]
PerturbLoop(c, a, idv, acc) ==
    IF idv > Len(c.vars_to_perturbate) THEN acc
    ELSE
      LET var_tmp == c.vars_to_perturbate[idv]
          strategy_tmp == c.perturbation_strategy[idv]
          src == NoiseSource(c, a, idv, acc.rng)
          proc == add_process_noise(c, src.out, var_tmp, strategy_tmp, src.rng)
          failed(r) == [err |-> TRUE, forcing |-> <<>>, noise |-> <<>>, rng |-> r]
      IN  IF src.err THEN failed(src.rng)
          ELSE IF proc.err THEN failed(proc.rng)
          ELSE IF ~ShapesAgree(proc.out, a.n_steps) THEN failed(proc.rng)
          ELSE PerturbLoop(c, a, idv + 1,
                 [err |-> FALSE,
                  forcing |-> Append(acc.forcing,
                     [var |-> var_tmp,
                      op |-> IF strategy_tmp \in {"lognormal", "logitnormal_mult"}
                             THEN "mul" ELSE "add",
                      coef |-> proc.out]),
                  noise |-> Append(acc.noise, proc.out),
                  rng |-> proc.rng])

perturb_parameters(c, a, r) ==
    IF LengthMismatch(c)
    THEN [err |-> TRUE, forcing |-> <<>>, noise |-> <<>>, rng |-> r]
    ELSE IF a.update /\ Len(c.vars_to_perturbate) # Len(a.noise)
    THEN [err |-> TRUE, forcing |-> <<>>, noise |-> <<>>, rng |-> r]
    ELSE PerturbLoop(c, a, 1,
             [err |-> FALSE, forcing |-> <<>>, noise |-> <<>>, rng |-> r])

----------------------------------------------------------------------------
(* get_shape_from_noise and redraw *)

\* perturbation_strategy[count] == ["logitnormal_mult", "logitnormal_adi"]:
\* a str compared with a list, which Python evaluates to False
StrEqualsList(s, l) == FALSE

\* cnt.sdfrac, the fraction of the nominal error used when Neff is low
sdfrac == [num |-> 1, den |-> 2]

\* DescrStatsW(x, weights=w).mean = sum(w * x) / sum(w); the ensembles
\* drawn by the initial states have a whole-number weighted mean
WeightedMean(x, w) ==
    SumOver([m \in DOMAIN x |-> w[m] * x[m]], DOMAIN x) \div SumOver(w, DOMAIN w)

\* DescrStatsW(x, weights=w).std = sqrt(sum(w * (x - mean)^2) / sum(w)),
\* kept as [ss, k]
WeightedStd(x, w) ==
    LET mean == WeightedMean(x, w)
    IN  [ss |-> SumOver([m \in DOMAIN x |->
                           w[m] * (x[m] - mean) * (x[m] - mean)], DOMAIN x),
         k |-> SumOver(w, DOMAIN w)]

RECURSIVE ShapeLoop(_, _, _, _, _, _)
\* lines 350-378: one row (mu, sigma) per perturbed variable; the members'
\* coefficients are plain numbers once brought to the space they are
\* averaged in, and sigma is the standard deviation sqrt(ss / k)
ShapeLoop(c, noise_dict, wgth, lowNeff, count, acc) ==
    IF count > Len(c.vars_to_perturbate) THEN acc
    ELSE IF \/ Len(noise_dict) < c.ensemble_members
            \/ count > Len(c.perturbation_strategy)
    THEN [err |-> TRUE, out |-> <<>>, rng |-> acc.rng]
    ELSE
      LET var == c.vars_to_perturbate[count]
          strategy == c.perturbation_strategy[count]
          members == [mbr \in 1..c.ensemble_members |-> noise_dict[mbr][var]]
          logged == IF strategy = "lognormal"
                    THEN [mbr \in DOMAIN members |-> Log(members[mbr])]
                    ELSE members
          var_temp ==
              IF StrEqualsList(strategy, <<"logitnormal_mult", "logitnormal_adi">>)
              THEN [mbr \in DOMAIN logged |->
                      glogit(logged[mbr], upper_bounds[var], lower_bounds[var])]
              ELSE logged
          x == [mbr \in DOMAIN var_temp |-> var_temp[mbr].mean]
          mu == WeightedMean(x, wgth)
          sigma == IF lowNeff
                   THEN [ss |-> (sd_errors[var] * sdfrac.num)
                                  * (sd_errors[var] * sdfrac.num),
                         k |-> sdfrac.den * sdfrac.den]
                   ELSE WeightedStd(x, wgth)
      IN  ShapeLoop(c, noise_dict, wgth, lowNeff, count + 1,
             [acc EXCEPT !.out = Append(acc.out, <<mu, sigma>>)])

get_shape_from_noise(c, noise_dict, wgth, lowNeff, r) ==
    ShapeLoop(c, noise_dict, wgth, lowNeff, 1,
              [err |-> FALSE, out |-> <<>>, rng |-> r])

RECURSIVE RedrawLoop(_, _, _, _)
\* lines 391-409: one draw mu + sigma * randn(1) per strategy, sigma being
\* the standard deviation sqrt(ss / k) of its row
RedrawLoop(c, func_shape, count, acc) ==
    IF count > Len(c.perturbation_strategy) THEN acc
    ELSE IF count > Len(func_shape)
    THEN [err |-> TRUE, out |-> <<>>, rng |-> acc.rng]
    ELSE
      LET var == c.perturbation_strategy[count]
          mu == func_shape[count][1]
          sigma == func_shape[count][2]
          drawn == Normal(mu, sigma.ss, sigma.k, acc.rng)
          logd == IF var = "lognormal" THEN Exp(drawn) ELSE drawn
          new_pert ==
              IF StrEqualsList(var, <<"logitnormal_mult", "logitnormal_adi">>)
              THEN gexpit(logd, upper_bounds[c.vars_to_perturbate[count]],
                          lower_bounds[c.vars_to_perturbate[count]])
              ELSE logd
      IN  RedrawLoop(c, func_shape, count + 1,
             [err |-> FALSE, out |-> Append(acc.out, new_pert),
              rng |-> Advance(acc.rng, 1)])

redraw(c, func_shape, r) ==
    RedrawLoop(c, func_shape, 1, [err |-> FALSE, out |-> <<>>, rng |-> r])

----------------------------------------------------------------------------
(* Calls of the perturbation functions, on the arguments held in args *)

Returned(fn, ret, out) ==
    /\ hist' = Append(hist, [fn |-> fn, err |-> ret.err, out |-> out])
    /\ rng' = ret.rng
    /\ UNCHANGED <<args, cellVars>>

PerturbParameters ==
    /\ Len(hist) < MaxCalls
    /\ LET ret == perturb_parameters(cfg, args, rng)
       IN  Returned("perturb_parameters", ret,
                    [forcing |-> ret.forcing, noise |-> ret.noise])

CreateNoise ==
    /\ Len(hist) < MaxCalls
    /\ LET var == cfg.vars_to_perturbate[1]
           ret == create_noise(cfg, cfg.perturbation_strategy[1], args.n_steps,
                               mean_errors[var], sd_errors[var], var, rng)
       IN  Returned("create_noise", ret, ret.out)

CreateNoiseFromPosterior ==
    /\ Len(hist) < MaxCalls
    /\ LET ret == create_noise_from_posterior(
                      cfg, args.posteriors, cfg.perturbation_strategy[1],
                      cfg.vars_to_perturbate[1], rng)
       IN  Returned("create_noise_from_posterior", ret,
                    [noise |-> ret.out, segs |-> ret.segs])

AddProcessNoise ==
    /\ Len(hist) < MaxCalls
    /\ LET strategy == cfg.perturbation_strategy[1]
           ret == add_process_noise(
                      cfg, Repeat(Given(Dom(strategy), args.noise[1]), args.n_steps),
                      cfg.vars_to_perturbate[1], strategy, rng)
       IN  Returned("add_process_noise", ret, ret.out)

GetShapeFromNoise ==
    /\ Len(hist) < MaxCalls
    /\ LET ret == get_shape_from_noise(cfg, args.noise_dict, args.wgth,
                                       args.lowNeff, rng)
       IN  Returned("get_shape_from_noise", ret, ret.out)

\* the shape handed to redraw: the one get_shape_from_noise returned last,
\* or the caller's own
FuncShape ==
    LET S == {i \in 1..Len(hist) :
                hist[i].fn = "get_shape_from_noise" /\ ~hist[i].err}
    IN  IF S = {} THEN args.func_shape
        ELSE hist[CHOOSE i \in S : \A j \in S : j <= i].out

Redraw ==
    /\ Len(hist) < MaxCalls
    /\ LET ret == redraw(cfg, FuncShape, rng)
       IN  Returned("redraw", ret, ret.out)

----------------------------------------------------------------------------
(* Initial states *)

VarList(n) == SubSeq(VarNames, 1, n)

NormalList(n) == [i \in 1..n |-> "normal"]

CellConfigs ==
    [restart_run : BOOLEAN, load_prev_run : BOOLEAN,
     real_time_restart : BOOLEAN, save_ensemble : BOOLEAN,
     redraw_prior : BOOLEAN, da_algorithm : Algorithms,
     vars_to_perturbate : {VarList(n) : n \in 1..MaxVars},
     perturbation_strategy : {NormalList(n) : n \in 1..MaxVars},
     seed : {<<>>}, add_dynamic_noise : {FALSE},
     implementation : {"point_scale"},
     ensemble_members : 2..MaxMembers]

Environments ==
    [outputExists : BOOLEAN, masked : BOOLEAN, forcingNA : BOOLEAN,
     obsAllNaN : BOOLEAN, restartExists : BOOLEAN, nWindows : 1..MaxWindows]

NoiseIdle ==
    /\ rng = [stream |-> 0, pos |-> 0]
    /\ args = <<>>
    /\ hist = <<>>

CellIdle ==
    /\ env = [outputExists |-> FALSE, masked |-> FALSE, forcingNA |-> FALSE,
              obsAllNaN |-> FALSE, restartExists |-> FALSE, nWindows |-> 1]
    /\ pc = "idle"
    /\ step = 0
    /\ log = <<>>
    /\ ens = NoEnsemble
    /\ disk = <<>>

Init ==
    /\ cfg \in CellConfigs
    /\ env \in Environments
    /\ pc = "start"
    /\ step = 0
    /\ log = <<>>
    /\ ens = NoEnsemble
    /\ disk = <<>>
    /\ NoiseIdle

\* strategy lists: any first strategy, then "normal" or an unsupported name
StrategyLists ==
    UNION {{s \in [1..n -> AllStrategies] :
               \A i \in 2..n : s[i] \in {"normal", "uniform"}} : n \in 1..MaxVars}

NoiseConfigs ==
    [restart_run : {FALSE}, load_prev_run : BOOLEAN,
     real_time_restart : {FALSE}, save_ensemble : {FALSE},
     redraw_prior : {FALSE}, da_algorithm : {"PF"},
     vars_to_perturbate : {VarList(n) : n \in 1..MaxVars},
     perturbation_strategy : StrategyLists,
     seed : {<<>>, <<42>>}, add_dynamic_noise : BOOLEAN,
     implementation : {"point_scale", "Spatial_propagation"},
     ensemble_members : {2}]

\* equal means are contiguous: the series is made of constant-mean windows
Windowed(m) ==
    \A i, j \in 1..Len(m) :
        (i < j /\ m[i] = m[j]) => \A k \in i..j : m[k] = m[i]

PosteriorMeans == {1, 2, 3}
PosteriorSds == {0, 1, 2}

WindowedSeries ==
    UNION {{[mean |-> m, sd |-> s] :
               m \in {x \in [1..n -> PosteriorMeans] : Windowed(x)},
               s \in [1..n -> PosteriorSds]} : n \in 1..MaxSteps}

SamplePosteriors ==
    {[mean |-> <<1, 1, 2, 2>>, sd |-> <<1, 1, 0, 0>>],
     [mean |-> <<3, 1, 1>>, sd |-> <<1, 2, 2>>]}

ArgsFor(c, update, readGSC, nNoise, posteriors) ==
    [update |-> update, readGSC |-> readGSC,
     noise |-> [i \in 1..nNoise |-> i],
     gsc |-> [i \in 1..Len(c.vars_to_perturbate) |-> i],
     posteriors |-> posteriors,
     n_steps |-> Len(posteriors.mean),
     func_shape |-> [i \in 1..Len(c.vars_to_perturbate) |->
                        <<i, [ss |-> 1, k |-> 1]>>]]

InitNoise ==
    /\ cfg \in NoiseConfigs
    /\ \E path \in {<<FALSE, FALSE>>, <<TRUE, FALSE>>, <<FALSE, TRUE>>},
          nNoise \in 1..MaxVars, p \in SamplePosteriors :
          args = ArgsFor(cfg, path[1], path[2], nNoise, p)
    /\ rng = [stream |-> 0, pos |-> 0]
    /\ hist = <<>>
    /\ CellIdle

InitPosterior ==
    /\ cfg \in {c \in NoiseConfigs :
                  /\ c.load_prev_run
                  /\ ~c.add_dynamic_noise
                  /\ c.implementation = "point_scale"
                  /\ Len(c.vars_to_perturbate) = 1
                  /\ Len(c.perturbation_strategy) = 1}
    /\ \E p \in WindowedSeries : args = ArgsFor(cfg, FALSE, FALSE, 1, p)
    /\ rng = [stream |-> 0, pos |-> 0]
    /\ hist = <<>>
    /\ CellIdle

\* one strategy per perturbed variable, every supported strategy at
\* every position
RejuvenationConfigs ==
    [restart_run : {FALSE}, load_prev_run : {FALSE},
     real_time_restart : {FALSE}, save_ensemble : {FALSE},
     redraw_prior : {FALSE}, da_algorithm : {"PF"},
     vars_to_perturbate : {VarList(n) : n \in 1..MaxVars},
     perturbation_strategy :
         UNION {[1..n -> SupportedStrategies] : n \in 1..MaxVars},
     seed : {<<>>}, add_dynamic_noise : BOOLEAN,
     implementation : {"point_scale", "Spatial_propagation"},
     ensemble_members : 2..MaxMembers]

\* the values a member's coefficient takes: each lies within the bounds
\* of every variable
CoefValues == {1, 2, 3}

\* particle weights, up to their common normalisation
Weights(n) == {[m \in 1..n |-> 1], [m \in 1..n |-> IF m = 1 THEN 2 ELSE 1]}

\* a member's coefficient as a number: e^x for a lognormal variable, x
\* itself for the others
Coefficient(strategy, x) ==
    IF strategy = "lognormal" THEN Given("exp", x) ELSE Given("lin", x)

\* noise_dict[mbr][var] for the members' values x
NoiseDict(c, x) ==
    [mbr \in DOMAIN x |->
        [var \in {c.vars_to_perturbate[i] : i \in DOMAIN c.vars_to_perturbate} |->
            LET count == CHOOSE i \in DOMAIN c.vars_to_perturbate :
                             c.vars_to_perturbate[i] = var
            IN  Coefficient(c.perturbation_strategy[count], x[mbr])]]

InitRejuvenation ==
    /\ cfg \in {c \in RejuvenationConfigs :
                  Len(c.perturbation_strategy) = Len(c.vars_to_perturbate)}
    /\ \E x \in [1..cfg.ensemble_members -> CoefValues],
          w \in Weights(cfg.ensemble_members), lowNeff \in BOOLEAN :
          /\ SumOver([m \in DOMAIN x |-> w[m] * x[m]], DOMAIN x)
                 % SumOver(w, DOMAIN w) = 0
          /\ args = [noise |-> [i \in 1..Len(cfg.vars_to_perturbate) |-> i],
                     n_steps |-> 2,
                     func_shape |-> <<>>,
                     noise_dict |-> NoiseDict(cfg, x),
                     wgth |-> w,
                     lowNeff |-> lowNeff]
    /\ rng = [stream |-> 0, pos |-> 0]
    /\ hist = <<>>
    /\ CellIdle

----------------------------------------------------------------------------
(* Specifications *)

Next ==
    \/ CheckRestart
    \/ GetObs
    \/ ForcingTable
    \/ Dispatch
    \/ InitResults
    \/ InitEnsemble
    \/ EnsembleCreate
    \/ StorePrior
    \/ ImplementAssimilation
    \/ StorePosterior
    \/ Resample
    \/ SeasonRejuvenation
    \/ WriteResults
    \/ SaveEnsemble
    \/ SaveRestart

Spec == Init /\ [][Next]_vars

NextNoise ==
    \/ PerturbParameters
    \/ CreateNoise
    \/ CreateNoiseFromPosterior
    \/ AddProcessNoise
    \/ Redraw

SpecNoise == InitNoise /\ [][NextNoise]_vars

NextRejuvenation ==
    \/ CreateNoise
    \/ AddProcessNoise
    \/ GetShapeFromNoise
    \/ Redraw

SpecRejuvenation == InitRejuvenation /\ [][NextRejuvenation]_vars

NextPosterior == CreateNoiseFromPosterior

SpecPosterior == InitPosterior /\ [][NextPosterior]_vars

----------------------------------------------------------------------------
(* Properties of cell_assimilation (specification Spec) *)

ReachedDispatch == Logged("simulation_steps")

SimulationOrOutput == {"model_run", "run_model_openloop", "io_write_output",
                       "io_write_ensemble", "io_write_restart"}

FilteringOps == {"implement_assimilation", "resample", "season_rejuvenation"}

\* C1: on a restart run whose output file exists the call returns at once:
\* no observation provider, model adapter, Ensemble or io_write call is made
C1_RestartSkipsEverything ==
    (cfg.restart_run /\ env.outputExists) =>
        /\ log = <<>>
        /\ pc \in {"start", "done"}

C1_Witness ==
    /\ cfg.restart_run
    /\ env.outputExists
    /\ pc = "done"

\* C2: with vars_to_perturbate and perturbation_strategy of different
\* lengths no model run is performed and no output is written, on every
\* path through cell_assimilation, and a run that gets past the dispatch
\* ends in the configuration error
C2_MismatchRaisesBeforeSimulation ==
    LengthMismatch(cfg) =>
        /\ \A i \in 1..Len(log) : log[i].op \notin SimulationOrOutput
        /\ (ReachedDispatch /\ pc \notin {"dispatch", "init_results",
                                          "init_ensemble", "create"})
              => pc = "raised"

\* C8 as stated: under deterministic_OL a run that reaches the dispatch only
\* runs the open loop, whatever the run-mode flags
C8_OpenLoopForEveryFlag ==
    (cfg.da_algorithm = "deterministic_OL" /\ ReachedDispatch) =>
        /\ \A i \in 1..Len(log) : log[i].op \notin FilteringOps \cup {"create"}
        /\ pc # "dispatch" => Logged("run_model_openloop")

\* C8 amended: under deterministic_OL with load_prev_run unset a run that
\* reaches the dispatch only runs the open loop and returns; with
\* load_prev_run set it never runs the open loop, and creates the first
\* window's ensemble without ever filtering, resampling or rejuvenating
C8_OpenLoopUnlessLoadPrevRun ==
    (cfg.da_algorithm = "deterministic_OL" /\ ReachedDispatch /\ pc # "dispatch") =>
        IF ~cfg.load_prev_run
        THEN /\ pc = "done"
             /\ Logged("run_model_openloop")
             /\ \A i \in 1..Len(log) :
                    log[i].op \notin FilteringOps \cup {"create"}
        ELSE /\ ~Logged("run_model_openloop")
             /\ \A i \in 1..Len(log) :
                    /\ log[i].op \notin FilteringOps
                    /\ log[i].op = "create" => log[i].step = 0

C8_Witness ==
    /\ cfg.da_algorithm = "deterministic_OL"
    /\ ~cfg.load_prev_run
    /\ ~env.obsAllNaN
    /\ pc = "done"
    /\ Logged("run_model_openloop")

WindowOps == {"create", "store_prior", "implement_assimilation", "storeDA",
              "store_posterior", "resample", "season_rejuvenation"}

IsWindowOp(e) == e.op \in WindowOps

\* the operations the claim lists for window k, in its order
CanonWindow(k) ==
    <<Call("create", k), Call("store_prior", k),
      Call("implement_assimilation", k), Call("storeDA", k),
      Call("store_posterior", k)>>
    \o (IF cfg.da_algorithm \in {"PF", "PBS"}
        THEN <<Call("resample", k)>> ELSE <<>>)
    \o (IF cfg.da_algorithm \in RejuvenatingAlgorithms
        THEN <<Call("season_rejuvenation", k)>> ELSE <<>>)

RECURSIVE CanonUpTo(_)
\* windows 0 .. n-1, one after the other
CanonUpTo(n) == IF n = 0 THEN <<>> ELSE CanonUpTo(n - 1) \o CanonWindow(n - 1)

IsPrefix(s, t) == Len(s) <= Len(t) /\ SubSeq(t, 1, Len(s)) = s

LoopFinished == Logged("storeOL")

\* C9 as stated: in every cell run the windows are processed in increasing
\* order, each exactly once and in the fixed order of operations (so that
\* under PF every window ends with one resample)
C9_EveryWindowOnceInOrder ==
    /\ IsPrefix(SelectSeq(log, IsWindowOp), CanonUpTo(env.nWindows))
    /\ (pc = "done" /\ Logged("create")) =>
           SelectSeq(log, IsWindowOp) = CanonUpTo(env.nWindows)

\* C9 amended: in a cell run with load_prev_run unset the window operations
\* made so far are a prefix of the fixed sequence, and once the loop is over
\* every window was processed exactly once, in increasing order; with
\* load_prev_run set only window 0 is created and its prior stored
C9_WindowsInOrderUnlessLoadPrevRun ==
    IF ~cfg.load_prev_run
    THEN /\ IsPrefix(SelectSeq(log, IsWindowOp), CanonUpTo(env.nWindows))
         /\ (LoopFinished \/ (pc = "done" /\ Logged("create"))) =>
                SelectSeq(log, IsWindowOp) = CanonUpTo(env.nWindows)
    ELSE IsPrefix(SelectSeq(log, IsWindowOp),
                  <<Call("create", 0), Call("store_prior", 0)>>)

C9_Witness ==
    /\ ~cfg.load_prev_run
    /\ cfg.da_algorithm = "PF"
    /\ env.nWindows = MaxWindows
    /\ pc = "done"
    /\ LoopFinished
    /\ CountCalls("resample", MaxWindows - 1) = 1

----------------------------------------------------------------------------
(* Properties of the perturbation functions                                *)
(* (specifications SpecNoise and SpecPosterior)                            *)

CallsOf(fn) == {i \in 1..Len(hist) : hist[i].fn = fn}

\* the windows of a series in time order: <<[mean, len], ...>>
TimeWindows(m) ==
    LET starts == SortedSeq({i \in 1..Len(m) : i = 1 \/ m[i] # m[i - 1]})
    IN  [k \in 1..Len(starts) |->
            [mean |-> m[starts[k]],
             len |-> (IF k < Len(starts) THEN starts[k + 1] ELSE Len(m) + 1)
                     - starts[k]]]

StaticSeries == ~DynamicNoiseCase(args.posteriors.mean)

SupportedFirst == cfg.perturbation_strategy[1] \in SupportedStrategies

\* C3: for a series of constant-mean windows of any lengths the result has
\* one coefficient per record, constant over each window, and the k-th
\* window in time order contributes a block of that window's length
C3_BlocksFollowWindows ==
    \A i \in CallsOf("create_noise_from_posterior") :
        (StaticSeries /\ SupportedFirst) =>
            LET m == args.posteriors.mean
                w == TimeWindows(m)
                out == hist[i].out.noise
                segs == hist[i].out.segs
            IN  /\ ~hist[i].err
                /\ Len(out) = Len(m)
                /\ Len(segs) = Len(w)
                /\ \A k \in 1..Len(w) : segs[k].n_steps = w[k].len
                /\ \A p, q \in 1..Len(m) : m[p] = m[q] => out[p] = out[q]

\* C4: the std-dev drawn with a segment's mean is the root mean square of
\* the per-step std-devs over exactly the steps that carry that mean
C4_StdDevOfSameWindow ==
    \A i \in CallsOf("create_noise_from_posterior") :
        (StaticSeries /\ SupportedFirst) =>
            LET m == args.posteriors.mean
                sd == args.posteriors.sd
                segs == hist[i].out.segs
            IN  \A n \in 1..Len(segs) :
                    LET P == {p \in 1..Len(m) : m[p] = segs[n].mean}
                        ss == SumOver([p \in 1..Len(m) |-> sd[p] * sd[p]], P)
                    IN  segs[n].ss * Cardinality(P) = ss * segs[n].k

\* C5: when every record has a distinct mean the function completes, uses
\* the averaged mean for one segment over the whole series and returns one
\* coefficient per record
C5_DynamicCaseCompletes ==
    \A i \in CallsOf("create_noise_from_posterior") :
        (~StaticSeries /\ SupportedFirst) =>
            LET m == args.posteriors.mean
                segs == hist[i].out.segs
            IN  /\ ~hist[i].err
                /\ Len(segs) = 1
                /\ segs[1].mean * Len(m) = SumOver(m, 1..Len(m))
                /\ segs[1].n_steps = Len(m)
                /\ Len(hist[i].out.noise) = Len(m)

\* C6: with a configured seed two calls of perturb_parameters with the same
\* arguments and configuration return the same perturbed forcing and noise
\* coefficients, whatever was drawn between them
C6_SeededCallsRepeat ==
    cfg.seed # <<>> =>
        \A i, j \in CallsOf("perturb_parameters") : hist[i] = hist[j]

\* C7: an unsupported strategy name makes create_noise,
\* create_noise_from_posterior, add_process_noise and perturb_parameters
\* raise, for every setting of add_dynamic_noise and implementation and on
\* every path of perturb_parameters
C7_UnsupportedStrategyRaises ==
    /\ \A i \in CallsOf("create_noise") \cup CallsOf("add_process_noise")
                \cup CallsOf("create_noise_from_posterior") :
           ~SupportedFirst => hist[i].err
    /\ \A i \in CallsOf("perturb_parameters") :
           (\E idv \in 1..Len(cfg.perturbation_strategy) :
               cfg.perturbation_strategy[idv] \notin SupportedStrategies)
             => hist[i].err

----------------------------------------------------------------------------
(* Claims about the bounds of the coefficients (specification             *)
(* SpecRejuvenation)                                                       *)

\* v lies within [lo, hi] for every normal draw: it is the image of gexpit,
\* or a plain number between the bounds
WithinBounds(v, lo, hi) ==
    \/ v.dom = "expit"
    \/ /\ v.dom = "lin"
       /\ v.ss = 0
       /\ v.walk.n = 0
       /\ v.nudge = 0
       /\ lo <= v.mean
       /\ v.mean <= hi

\* C11: for every variable whose strategy is logitnormal_mult or
\* logitnormal_adi, every coefficient returned by create_noise, by
\* add_process_noise and by redraw on the shape of get_shape_from_noise
\* lies within [lower_bounds[var], upper_bounds[var]]
C11_LogitCoefficientsWithinBounds ==
    /\ \A i \in CallsOf("create_noise") \cup CallsOf("add_process_noise") :
          (cfg.perturbation_strategy[1] \in LogitStrategies /\ ~hist[i].err) =>
             \A t \in DOMAIN hist[i].out :
                WithinBounds(hist[i].out[t],
                             lower_bounds[cfg.vars_to_perturbate[1]],
                             upper_bounds[cfg.vars_to_perturbate[1]])
    /\ \A i \in CallsOf("redraw") :
          ~hist[i].err =>
             \A count \in DOMAIN hist[i].out :
                cfg.perturbation_strategy[count] \in LogitStrategies =>
                   WithinBounds(hist[i].out[count],
                                lower_bounds[cfg.vars_to_perturbate[count]],
                                upper_bounds[cfg.vars_to_perturbate[count]])

----------------------------------------------------------------------------
(* Claims about the end-of-run persistence (specification Spec)            *)

SaveOps == {"io_write_output", "io_write_ensemble", "reduce_ensemble",
            "io_write_restart"}

IsSaveOp(e) == e.op \in SaveOps

WindowsRun == [i \in 1..env.nWindows |-> i - 1]

\* e carries the forcing, simulated output and member states of every
\* window of the run
Unreduced(e) ==
    /\ e.forcing = WindowsRun
    /\ e.origin_state = WindowsRun
    /\ Len(e.state_membres) = e.members
    /\ \A i \in 1..e.members :
          e.state_membres[i] = MemberState(env.nWindows - 1)

\* e has no forcing, no simulated output and a placeholder for each member
Reduced(e) ==
    /\ e.forcing = <<>>
    /\ e.origin_state = <<>>
    /\ Len(e.state_membres) = e.members
    /\ \A i \in 1..e.members : e.state_membres[i] = Placeholder

BothSnapshots == cfg.save_ensemble /\ cfg.real_time_restart

\* C12: a completed DA run with save_ensemble and real_time_restart writes
\* the result bundle, then the full-ensemble snapshot, then reduces the
\* Ensemble in place and writes the restart snapshot; until the
\* full-ensemble snapshot is written the Ensemble is unreduced, the
\* full-ensemble snapshot holds the unreduced state, only the restart
\* snapshot holds the reduced one, and the member count is the same in both
C12_SnapshotsInOrder ==
    /\ (BothSnapshots /\ LoopFinished /\ pc # "done") =>
          /\ Unreduced(ens)
          /\ ~Logged("reduce_ensemble")
          /\ \A i \in 1..Len(disk) : disk[i].file # "restart"
    /\ (BothSnapshots /\ LoopFinished /\ pc = "done") =>
          /\ SelectSeq(log, IsSaveOp) =
                <<Call("io_write_output", -1), Call("io_write_ensemble", -1),
                  Call("reduce_ensemble", -1), Call("io_write_restart", -1)>>
          /\ [i \in 1..Len(disk) |-> disk[i].file] =
                <<"output", "ensemble", "restart">>
          /\ Unreduced(disk[2].content)
          /\ ~Reduced(disk[2].content)
          /\ Reduced(disk[3].content)
          /\ disk[2].content.members = cfg.ensemble_members
          /\ disk[3].content.members = cfg.ensemble_members
          /\ ens = disk[3].content

\* a run over more than one window, started from a restart snapshot, has
\* written its three files
C12_Witness ==
    /\ BothSnapshots
    /\ LoopFinished
    /\ pc = "done"
    /\ env.restartExists
    /\ env.nWindows > 1
    /\ Len(disk) = 3
    /\ disk[3].file = "restart"

====
